---- MODULE Spec2Model ----
(***************************************************************************)
(* Model of the RAG query pipeline (src/app-api/main.py) and of the        *)
(* consumers of its streamed response (src/web-ui/app.py).                 *)
(*                                                                         *)
(* One /query request is followed from the arrival of its payload to the   *)
(* end of its response.  The encoder service, the index backend and the    *)
(* generator backend are external: each of their answers is a              *)
(* nondeterministic choice among the answers the client code              *)
(* distinguishes.                                                          *)
(***************************************************************************)
EXTENDS Integers, Sequences, FiniteSets, TLC

(***************************************************************************)
(* Bounds of the model.                                                    *)
(***************************************************************************)
MaxHits == 2      \* longest hit list the index backend answers with
MaxLines == 2     \* most generator records consumed in one request
MaxTopK == 1      \* largest explicit top_k of a payload
MaxFragments == 2 \* most text fragments making up the generated text on the wire
MaxSources == 1   \* most sources serialized into one metadata frame

(***************************************************************************)
(* Program constants.                                                      *)
(***************************************************************************)
DefaultTopK == 5              \* QueryRequest.top_k default
ServiceUnavailable == 503     \* get_query_vector, encoder status/transport
InternalServerError == 500    \* get_query_vector / query, unexpected error
UnprocessableEntity == 422    \* FastAPI validation of QueryRequest
StatusOK == 200               \* StreamingResponse / generator success

(***************************************************************************)
(* Values of the environment.                                              *)
(***************************************************************************)
Tokens == {"a", "b"}
Weights == {1, 2}
Fragments == {"x", "y"}
GenStatuses == {200, 404, 500}

\* A dict: a function whose domain is the set of its keys.
SparseVectors == UNION {[D -> Weights] : D \in SUBSET Tokens}
EmptyDict == [t \in {} |-> 0]

\* dict.get(key, default)
Get(d, key, default) == IF key \in DOMAIN d THEN d[key] ELSE default

\* Request payloads as they arrive, before validation.
Payloads ==
    {[user_query |-> q, top_k_kind |-> "int", top_k |-> k] :
        q \in {"missing", "nonstring", "q"}, k \in -1..MaxTopK}
    \cup
    {[user_query |-> q, top_k_kind |-> kd, top_k |-> 0] :
        q \in {"missing", "nonstring", "q"}, kd \in {"missing", "nonint"}}

\* Hits as the index backend returns them: the second one has no title and
\* no url in its source.
RawHits ==
    {[source |-> [title |-> "A", content |-> "ca", url |-> "ua"], score |-> 2],
     [source |-> [content |-> "cb"], score |-> 1]}

RECURSIVE SeqsUpTo(_, _)
SeqsUpTo(S, n) ==
    IF n = 0 THEN {<<>>}
    ELSE LET shorter == SeqsUpTo(S, n - 1)
         IN  shorter \cup {Append(s, x) : s \in {t \in shorter : Len(t) = n - 1}, x \in S}

\* Answers of the index backend to one search call.
SearchResponses ==
    {[kind |-> "error", hits |-> <<>>]}
    \cup {[kind |-> "hits", hits |-> h] : h \in SeqsUpTo(RawHits, MaxHits)}

\* Answers of the encoder service to one POST /encode.
EncoderResponses ==
    {[kind |-> k, sparse_vector |-> EmptyDict] :
        k \in {"unreachable", "status_error", "bad_body", "no_key"}}
    \cup {[kind |-> "ok", sparse_vector |-> v] : v \in SparseVectors}

\* Lines of the generator backend's streamed body.
GenRecords ==
    {[kind |-> k, hasResponse |-> FALSE, response |-> "", done |-> FALSE] :
        k \in {"empty", "badjson", "nonobject"}}
    \cup {[kind |-> "object", hasResponse |-> FALSE, response |-> "", done |-> d] :
            d \in BOOLEAN}
    \cup {[kind |-> "object", hasResponse |-> TRUE, response |-> f, done |-> d] :
            f \in Fragments, d \in BOOLEAN}

VARIABLES
    payload,        \* the request body as received
    request,        \* the validated QueryRequest
    pc,             \* position of the request in query / generate_response_stream
    status,         \* HTTP status of the response, 0 while none is decided
    query_vector,   \* query(): query_vector
    contexts,       \* query(): contexts
    prompt,         \* query(): prompt
    out,            \* units yielded by generate_response_stream so far
    lines,          \* generator records read so far by aiter_lines
    encCalls,       \* POSTs issued to the encoder service
    searchCalls,    \* es_client.search calls issued
    genCalls,       \* POSTs issued to the generator backend
    searchBody,     \* body of the last search call
    encOutcome,     \* how the encoder call ended
    searchOutcome,  \* how the search stage ended
    genOutcome      \* how the generator call ended

\* The web-ui consumer of one response stream (src/web-ui/app.py).
VARIABLES
    stream,             \* the whole response body, a sequence of characters
    pos,                \* characters of the stream already delivered by iter_text
    buffer,             \* main(): buffer
    metadata_received,  \* main(): metadata_received
    sources,            \* main(): sources
    full_response,      \* main(): full_response
    cpc,                \* "reading" inside the iter_text loop, "finished" after it
    splits,             \* executions of buffer.split("\n---\n", 1)
    bytewise,           \* every chunk delivered by iter_text so far was one character
    wireSources,        \* the sources the orchestrator serialized into the stream
    wireText            \* the generated text the orchestrator streamed

cvars == <<stream, pos, buffer, metadata_received, sources, full_response, cpc, splits,
           bytewise, wireSources, wireText>>

\* One ingestion run after another of the indexer (src/indexer/index_data.py).
VARIABLES
    ipc,            \* position of the run in main / fetch_scrapbox_pages / index_documents
    attempts,       \* main(): failed liveness probes of the readiness loop; cleared
                    \* when the loop is left by break, nothing reads it afterwards
    connected,      \* main(): connected
    indexExists,    \* the backing store holds the index (kept from run to run)
    creations,      \* index creations the store has accepted, over all runs
    createCalls,    \* es.indices.create calls of this run
    existedAtCheck, \* what es.indices.exists answered in this run
    pages,          \* the page list the document source serves
    profile,        \* how the encoder answers, by parity of the chunk index
    pageIdx,        \* fetch_scrapbox_pages(): pages handled so far
    pageOutcomes,   \* how the fetch of each handled page ended
    fetchCalls,     \* requests sent to the document source in this run
    docs,           \* fetch_scrapbox_pages(): docs, then index_documents(): documents
    docIdx,         \* index_documents(): the document being processed (1-based)
    chunkIdx,       \* index_documents(): i, the chunk being processed (0-based)
    actions,        \* index_documents(): actions
    written,        \* the batches async_bulk has committed in this run
    encoded,        \* get_sparse_vector calls of this run
    encFailed,      \* some get_sparse_vector call of this run met an exception
    rejected,       \* the store rejected a bulk write of this run
    failure,        \* what raised out of the run, "none" if nothing
    result          \* how the run ended, "running" until then

ivars == <<ipc, attempts, connected, indexExists, creations, createCalls, existedAtCheck,
           pages, profile, pageIdx, pageOutcomes, fetchCalls, docs, docIdx, chunkIdx,
           actions, written, encoded, encFailed, rejected, failure, result>>

\* One call of the encoder service's encode (src/splade-api/main.py).
VARIABLES
    logits,         \* model(**inputs).logits, per position and vocabulary term
    attention_mask, \* inputs.attention_mask, per position
    epc,            \* "called" before encode has run, "returned" / "raised" after
    sparse_vector   \* encode(): sparse_vector

evars == <<logits, attention_mask, epc, sparse_vector>>

\* The evaluation client reading one response stream (src/eval/evaluate.py).
VARIABLES
    eval_status,    \* response.status_code
    eval_stream,    \* the whole response body, a sequence of characters
    eval_pos,       \* characters of the body already delivered by aiter_text
    full_answer,    \* get_rag_response(): full_answer
    eval_contexts,  \* get_rag_response(): contexts
    eval_pc,        \* "reading" inside the loop, "returned" / "returned_none" after
    eval_answer,    \* the first value get_rag_response returned
    eval_sources,   \* the sources the orchestrator serialized into the body
    eval_text       \* the generated text the orchestrator streamed

gvars == <<eval_status, eval_stream, eval_pos, full_answer, eval_contexts, eval_pc,
           eval_answer, eval_sources, eval_text>>

qvars == <<payload, request, pc, status, query_vector, contexts, prompt, out, lines,
           encCalls, searchCalls, genCalls, searchBody, encOutcome, searchOutcome,
           genOutcome>>

NoRequest == [user_query |-> "", top_k |-> 0]
NoPrompt == [kind |-> "none", query |-> "", items |-> <<>>]
NoBody == [should |-> {}, size |-> 0]

(***************************************************************************)
(* QueryRequest: user_query is a required str, top_k an int defaulting     *)
(* to 5.  No other constraint is declared on either field.                 *)
(***************************************************************************)
QueryRequestValid(p) ==
    /\ p.user_query = "q"
    /\ p.top_k_kind \in {"int", "missing"}

QueryRequest(p) ==
    [user_query |-> p.user_query,
     top_k |-> IF p.top_k_kind = "missing" THEN DefaultTopK ELSE p.top_k]

(***************************************************************************)
(* build_prompt                                                            *)
(***************************************************************************)
build_prompt(query, ctxs) ==
    IF ctxs = <<>>
    THEN [kind |-> "general", query |-> query, items |-> <<>>]
    ELSE [kind |-> "context", query |-> query,
          items |-> [i \in 1..Len(ctxs) |->
                        [idx |-> i, title |-> ctxs[i].title, url |-> ctxs[i].url,
                         content |-> ctxs[i].content]]]

(***************************************************************************)
(* search_documents: the request body and the conversion of the hits.      *)
(***************************************************************************)
SearchRequestBody(qv, top_k) ==
    [should |-> {[field |-> <<"sparse_vector", t>>, boost |-> qv[t]] : t \in DOMAIN qv},
     size |-> top_k]

HitToResult(hit) ==
    [title |-> Get(hit.source, "title", "Untitled"),
     content |-> Get(hit.source, "content", ""),
     url |-> Get(hit.source, "url", ""),
     score |-> hit.score]

SearchResults(resp) ==
    IF resp.kind = "error" THEN <<>>
    ELSE [i \in 1..Len(resp.hits) |-> HitToResult(resp.hits[i])]

(***************************************************************************)
(* generate_response_stream: the units it yields.                          *)
(***************************************************************************)
Unit(kind, srcs, text, code) ==
    [kind |-> kind, sources |-> srcs, text |-> text, code |-> code]

\* the sources listed from the last context to the first
SourcesOfReversed(ctxs) ==
    [i \in 1..Len(ctxs) |->
        [title |-> ctxs[Len(ctxs) + 1 - i].title, url |-> ctxs[Len(ctxs) + 1 - i].url,
         score |-> ctxs[Len(ctxs) + 1 - i].score]]

SourcesOf(ctxs) ==
    [i \in 1..Len(ctxs) |->
        [title |-> ctxs[i].title, url |-> ctxs[i].url, score |-> ctxs[i].score]]

\* json.dumps(metadata) + "\n---\n", yielded as one unit
MetadataFrame(ctxs) == Unit("metadata", SourcesOf(ctxs), "\n---\n", 0)
TextUnit(fragment) == Unit("text", <<>>, fragment, 0)
StatusErrorUnit(code) == Unit("error", <<>>, "Error: LLM service returned", code)
ConnectErrorUnit == Unit("error", <<>>, "Error: Failed to connect to LLM service.", 0)

\* the consumer while no stream is being read
CIdle ==
    /\ stream = <<>>
    /\ pos = 0
    /\ buffer = <<>>
    /\ metadata_received = FALSE
    /\ sources = <<>>
    /\ full_response = <<>>
    /\ cpc = "idle"
    /\ splits = 0
    /\ bytewise = TRUE
    /\ wireSources = <<>>
    /\ wireText = <<>>

QInit ==
    /\ payload \in Payloads
    /\ request = NoRequest
    /\ pc = "received"
    /\ status = 0
    /\ query_vector = EmptyDict
    /\ contexts = <<>>
    /\ prompt = NoPrompt
    /\ out = <<>>
    /\ lines = <<>>
    /\ encCalls = 0
    /\ searchCalls = 0
    /\ genCalls = 0
    /\ searchBody = NoBody
    /\ encOutcome = "none"
    /\ searchOutcome = "none"
    /\ genOutcome = "none"

(***************************************************************************)
(* FastAPI validates the body against QueryRequest before query() runs.    *)
(***************************************************************************)
Validate ==
    /\ pc = "received"
    /\ IF QueryRequestValid(payload)
       THEN /\ request' = QueryRequest(payload)
            /\ pc' = "vectorizing"
            /\ status' = status
       ELSE /\ request' = request
            /\ pc' = "rejected"
            /\ status' = UnprocessableEntity
    /\ UNCHANGED <<cvars, ivars, evars, gvars>>
    /\ UNCHANGED <<payload, query_vector, contexts, prompt, out, lines, encCalls,
                   searchCalls, genCalls, searchBody, encOutcome, searchOutcome,
                   genOutcome>>

\* get_query_vector swallowing every failure into an empty vector
get_query_vector_swallowing(resp) ==
    IF resp.kind = "ok"
    THEN [raised |-> FALSE, status_code |-> 0, value |-> resp.sparse_vector]
    ELSE [raised |-> FALSE, status_code |-> 0, value |-> EmptyDict]

(***************************************************************************)
(* get_query_vector: what it returns or raises for an encoder answer.      *)
(***************************************************************************)
get_query_vector(resp) ==
    CASE resp.kind \in {"unreachable", "status_error"} ->
            [raised |-> TRUE, status_code |-> ServiceUnavailable, value |-> EmptyDict]
      [] resp.kind = "bad_body" ->
            [raised |-> TRUE, status_code |-> InternalServerError, value |-> EmptyDict]
      [] resp.kind = "no_key" ->
            [raised |-> FALSE, status_code |-> 0, value |-> EmptyDict]
      [] OTHER ->
            [raised |-> FALSE, status_code |-> 0, value |-> resp.sparse_vector]

\* the encoder call issued again after a failure
GetQueryVectorRetrying ==
    /\ pc = "vectorizing"
    /\ encCalls' = encCalls + 1
    /\ \E resp \in EncoderResponses :
        LET r == get_query_vector(resp)
            again == r.raised /\ encCalls = 0
        IN  /\ encOutcome' = resp.kind
            /\ pc' = IF again THEN pc ELSE IF r.raised THEN "failed" ELSE "retrieving"
            /\ status' = IF r.raised /\ ~again THEN r.status_code ELSE status
            /\ query_vector' = IF r.raised THEN query_vector ELSE r.value
    /\ UNCHANGED <<cvars, ivars, evars, gvars>>
    /\ UNCHANGED <<payload, request, contexts, prompt, out, lines, searchCalls,
                   genCalls, searchBody, searchOutcome, genOutcome>>

(***************************************************************************)
(* query() step 1: get_query_vector(request.user_query); an HTTPException  *)
(* is re-raised by query().                                                *)
(***************************************************************************)
GetQueryVector ==
    /\ pc = "vectorizing"
    /\ encCalls' = encCalls + 1
    /\ \E resp \in EncoderResponses :
        LET r == get_query_vector(resp)
        IN  /\ encOutcome' = resp.kind
            /\ pc' = IF r.raised THEN "failed" ELSE "retrieving"
            /\ status' = IF r.raised THEN r.status_code ELSE status
            /\ query_vector' = IF r.raised THEN query_vector ELSE r.value
    /\ UNCHANGED <<cvars, ivars, evars, gvars>>
    /\ UNCHANGED <<payload, request, contexts, prompt, out, lines, searchCalls,
                   genCalls, searchBody, searchOutcome, genOutcome>>

\* search_documents letting a backend error propagate
search_documents_propagating(qv, top_k, resp) ==
    IF DOMAIN qv = {}
    THEN [called |-> FALSE, body |-> NoBody, raised |-> FALSE, results |-> <<>>,
          outcome |-> "skipped"]
    ELSE [called |-> TRUE, body |-> SearchRequestBody(qv, top_k),
          raised |-> (resp.kind = "error"), results |-> SearchResults(resp),
          outcome |-> resp.kind]

\* search_documents without the empty-vector short-circuit
search_documents_always_calls(qv, top_k, resp) ==
    [called |-> TRUE, body |-> SearchRequestBody(qv, top_k), raised |-> FALSE,
     results |-> SearchResults(resp), outcome |-> resp.kind]

(***************************************************************************)
(* search_documents: whether it issues the search call, with which body,   *)
(* and what it returns when the backend answers resp.                      *)
(***************************************************************************)
search_documents(qv, top_k, resp) ==
    IF DOMAIN qv = {}
    THEN [called |-> FALSE, body |-> NoBody, raised |-> FALSE, results |-> <<>>,
          outcome |-> "skipped"]
    ELSE [called |-> TRUE, body |-> SearchRequestBody(qv, top_k), raised |-> FALSE,
          results |-> SearchResults(resp), outcome |-> resp.kind]

(***************************************************************************)
(* query() step 2: search_documents(query_vector, request.top_k); anything *)
(* it raises becomes a 500 in query().                                     *)
(***************************************************************************)
SearchDocuments ==
    /\ pc = "retrieving"
    /\ \E resp \in SearchResponses :
        LET r == search_documents(query_vector, request.top_k, resp)
        IN  /\ r.called \/ resp = [kind |-> "error", hits |-> <<>>]
            /\ searchCalls' = IF r.called THEN searchCalls + 1 ELSE searchCalls
            /\ searchBody' = IF r.called THEN r.body ELSE searchBody
            /\ searchOutcome' = r.outcome
            /\ contexts' = IF r.raised THEN contexts ELSE r.results
            /\ pc' = IF r.raised THEN "failed" ELSE "prompting"
            /\ status' = IF r.raised THEN InternalServerError ELSE status
    /\ UNCHANGED <<cvars, ivars, evars, gvars>>
    /\ UNCHANGED <<payload, request, query_vector, prompt, out, lines,
                   encCalls, genCalls, encOutcome, genOutcome>>

\* the prompt built without waiting for the search stage
BuildPromptEarly ==
    /\ pc \in {"retrieving", "prompting"}
    /\ prompt' = build_prompt(request.user_query, contexts)
    /\ status' = StatusOK
    /\ pc' = "stream_metadata"
    /\ UNCHANGED <<cvars, ivars, evars, gvars>>
    /\ UNCHANGED <<payload, request, query_vector, contexts, out, lines, encCalls,
                   searchCalls, genCalls, searchBody, encOutcome, searchOutcome,
                   genOutcome>>

(***************************************************************************)
(* query() steps 3 and 4: build_prompt, then return the StreamingResponse  *)
(* over generate_response_stream(prompt, contexts).                        *)
(***************************************************************************)
BuildPrompt ==
    /\ pc = "prompting"
    /\ prompt' = build_prompt(request.user_query, contexts)
    /\ status' = StatusOK
    /\ pc' = "stream_metadata"
    /\ UNCHANGED <<cvars, ivars, evars, gvars>>
    /\ UNCHANGED <<payload, request, query_vector, contexts, out, lines, encCalls,
                   searchCalls, genCalls, searchBody, encOutcome, searchOutcome,
                   genOutcome>>

\* the metadata frame left out when there is no source to report
EmitMetadataUnlessEmpty ==
    /\ pc = "stream_metadata"
    /\ out' = IF contexts = <<>> THEN out ELSE Append(out, MetadataFrame(contexts))
    /\ pc' = "stream_connect"
    /\ UNCHANGED <<cvars, ivars, evars, gvars>>
    /\ UNCHANGED <<payload, request, status, query_vector, contexts, prompt, lines,
                   encCalls, searchCalls, genCalls, searchBody, encOutcome,
                   searchOutcome, genOutcome>>

(***************************************************************************)
(* generate_response_stream: the first yield.                              *)
(***************************************************************************)
EmitMetadata ==
    /\ pc = "stream_metadata"
    /\ out' = Append(out, MetadataFrame(contexts))
    /\ pc' = "stream_connect"
    /\ UNCHANGED <<cvars, ivars, evars, gvars>>
    /\ UNCHANGED <<payload, request, status, query_vector, contexts, prompt, lines,
                   encCalls, searchCalls, genCalls, searchBody, encOutcome,
                   searchOutcome, genOutcome>>

(***************************************************************************)
(* generate_response_stream: client.stream("POST", ollama_url, ...)        *)
(***************************************************************************)
GenConnect ==
    /\ pc = "stream_connect"
    /\ genCalls' = genCalls + 1
    /\ \/ /\ genOutcome' = "unreachable"
          /\ out' = Append(out, ConnectErrorUnit)
          /\ pc' = "done"
       \/ \E code \in GenStatuses :
            IF code # StatusOK
            THEN /\ genOutcome' = "bad_status"
                 /\ out' = Append(out, StatusErrorUnit(code))
                 /\ pc' = "done"
            ELSE /\ genOutcome' = genOutcome
                 /\ out' = out
                 /\ pc' = "stream_lines"
    /\ UNCHANGED <<cvars, ivars, evars, gvars>>
    /\ UNCHANGED <<payload, request, status, query_vector, contexts, prompt, lines,
                   encCalls, searchCalls, searchBody, encOutcome, searchOutcome>>

\* the loop going on after a record with a true completion flag
GenLineNoBreak ==
    /\ pc = "stream_lines"
    /\ Len(lines) < MaxLines
    /\ \E line \in GenRecords :
        /\ lines' = Append(lines, line)
        /\ CASE line.kind \in {"empty", "badjson"} ->
                    UNCHANGED <<out, pc, genOutcome>>
             [] line.kind = "nonobject" ->
                    /\ pc' = "crashed"
                    /\ genOutcome' = "raised"
                    /\ out' = out
             [] OTHER ->
                    /\ out' = IF line.hasResponse
                              THEN Append(out, TextUnit(line.response))
                              ELSE out
                    /\ UNCHANGED <<pc, genOutcome>>
    /\ UNCHANGED <<cvars, ivars, evars, gvars>>
    /\ UNCHANGED <<payload, request, status, query_vector, contexts, prompt, encCalls,
                   searchCalls, genCalls, searchBody, encOutcome, searchOutcome>>

\* the completion flag tested before the fragment of the record is yielded
GenLineDoneFirst ==
    /\ pc = "stream_lines"
    /\ Len(lines) < MaxLines
    /\ \E line \in GenRecords :
        /\ lines' = Append(lines, line)
        /\ CASE line.kind \in {"empty", "badjson"} ->
                    UNCHANGED <<out, pc, genOutcome>>
             [] line.kind = "nonobject" ->
                    /\ pc' = "crashed"
                    /\ genOutcome' = "raised"
                    /\ out' = out
             [] OTHER ->
                    /\ out' = IF line.hasResponse /\ ~line.done
                              THEN Append(out, TextUnit(line.response))
                              ELSE out
                    /\ pc' = IF line.done THEN "done" ELSE pc
                    /\ genOutcome' = IF line.done THEN "completed" ELSE genOutcome
    /\ UNCHANGED <<cvars, ivars, evars, gvars>>
    /\ UNCHANGED <<payload, request, status, query_vector, contexts, prompt, encCalls,
                   searchCalls, genCalls, searchBody, encOutcome, searchOutcome>>

(***************************************************************************)
(* generate_response_stream: one iteration of the aiter_lines loop.        *)
(***************************************************************************)
GenLine ==
    /\ pc = "stream_lines"
    /\ Len(lines) < MaxLines
    /\ \E line \in GenRecords :
        /\ lines' = Append(lines, line)
        /\ CASE line.kind \in {"empty", "badjson"} ->
                    UNCHANGED <<out, pc, genOutcome>>
             [] line.kind = "nonobject" ->
                    /\ pc' = "crashed"
                    /\ genOutcome' = "raised"
                    /\ out' = out
             [] OTHER ->
                    /\ out' = IF line.hasResponse
                              THEN Append(out, TextUnit(line.response))
                              ELSE out
                    /\ pc' = IF line.done THEN "done" ELSE pc
                    /\ genOutcome' = IF line.done THEN "completed" ELSE genOutcome
    /\ UNCHANGED <<cvars, ivars, evars, gvars>>
    /\ UNCHANGED <<payload, request, status, query_vector, contexts, prompt, encCalls,
                   searchCalls, genCalls, searchBody, encOutcome, searchOutcome>>

\* the backend's body ends
GenExhausted ==
    /\ pc = "stream_lines"
    /\ pc' = "done"
    /\ genOutcome' = "exhausted"
    /\ UNCHANGED <<cvars, ivars, evars, gvars>>
    /\ UNCHANGED <<payload, request, status, query_vector, contexts, prompt, out, lines,
                   encCalls, searchCalls, genCalls, searchBody, encOutcome,
                   searchOutcome>>

\* a transport failure while reading the body left to propagate
GenTransportErrorRaised ==
    /\ pc = "stream_lines"
    /\ pc' = "crashed"
    /\ genOutcome' = "transport"
    /\ UNCHANGED <<cvars, ivars, evars, gvars>>
    /\ UNCHANGED <<payload, request, status, query_vector, contexts, prompt, out, lines,
                   encCalls, searchCalls, genCalls, searchBody, encOutcome,
                   searchOutcome>>

\* httpx.RequestError while reading the body
GenTransportError ==
    /\ pc = "stream_lines"
    /\ out' = Append(out, ConnectErrorUnit)
    /\ pc' = "done"
    /\ genOutcome' = "transport"
    /\ UNCHANGED <<cvars, ivars, evars, gvars>>
    /\ UNCHANGED <<payload, request, status, query_vector, contexts, prompt, lines,
                   encCalls, searchCalls, genCalls, searchBody, encOutcome,
                   searchOutcome>>

QNext ==
    \/ Validate
    \/ GetQueryVector
    \/ SearchDocuments
    \/ BuildPrompt
    \/ EmitMetadata
    \/ GenConnect
    \/ GenLine
    \/ GenExhausted
    \/ GenTransportError

(***************************************************************************)
(* The wire: the response body is a sequence of characters.  "LF" is the   *)
(* line feed, "Q" the double quote and "B" the backslash.  A source is     *)
(* carried on the wire by its title string.                                *)
(***************************************************************************)
Delim == <<"LF", "-", "-", "-", "LF">>      \* "\n---\n"

RECURSIVE Concat(_)
Concat(ss) == IF ss = <<>> THEN <<>> ELSE Head(ss) \o Concat(Tail(ss))

\* text fragments as the generator may produce them, character by character
WireFragments == {<<"a">>, <<"LF">>, <<"-">>, <<"LF", "-", "-", "-", "LF">>}
WireTexts == {Concat(fs) : fs \in SeqsUpTo(WireFragments, MaxFragments)}
Titles == {<<"a">>, <<"LF", "-", "-", "-", "LF">>}

\* a character written into the JSON text as it is
EscapeCharRaw(c) == <<c>>

\* json.dumps of a string: quoted, with line feed, quote and backslash escaped
EscapeChar(c) ==
    CASE c = "LF" -> <<"B", "n">>
      [] c = "Q" -> <<"B", "Q">>
      [] c = "B" -> <<"B", "B">>
      [] OTHER -> <<c>>

JsonString(str) ==
    <<"Q">> \o Concat([i \in 1..Len(str) |-> EscapeChar(str[i])]) \o <<"Q">>

\* json.dumps of {"type": ..., "sources": [...]}
JsonDumps(obj) ==
    <<"{", IF obj.type = "metadata" THEN "m" ELSE "o">>
    \o Concat([i \in 1..Len(obj.sources) |-> JsonString(obj.sources[i])])
    \o <<"}">>

JsonError == [ok |-> FALSE, type |-> "", sources |-> <<>>]

\* the strings of a JSON array body, or a decode error
RECURSIVE ParseStrings(_, _, _, _, _)
ParseStrings(s, i, inStr, cur, acc) ==
    IF i > Len(s) THEN [ok |-> ~inStr, type |-> "", sources |-> acc]
    ELSE IF ~inStr
         THEN IF s[i] = "Q" THEN ParseStrings(s, i + 1, TRUE, <<>>, acc) ELSE JsonError
         ELSE CASE s[i] = "Q" -> ParseStrings(s, i + 1, FALSE, <<>>, Append(acc, cur))
                [] s[i] = "LF" -> JsonError
                [] s[i] = "B" ->
                     IF i + 1 > Len(s) THEN JsonError
                     ELSE IF s[i + 1] = "n"
                          THEN ParseStrings(s, i + 2, TRUE, Append(cur, "LF"), acc)
                          ELSE IF s[i + 1] \in {"Q", "B"}
                               THEN ParseStrings(s, i + 2, TRUE, Append(cur, s[i + 1]), acc)
                               ELSE JsonError
                [] OTHER -> ParseStrings(s, i + 1, TRUE, Append(cur, s[i]), acc)

\* json.loads: the decoded object, or ok = FALSE for json.JSONDecodeError
JsonLoads(s) ==
    IF Len(s) < 3 \/ s[1] # "{" \/ s[2] \notin {"m", "o"} \/ s[Len(s)] # "}"
    THEN JsonError
    ELSE LET body == ParseStrings(SubSeq(s, 3, Len(s) - 1), 1, FALSE, <<>>, <<>>)
         IN  IF body.ok
             THEN [ok |-> TRUE, type |-> IF s[2] = "m" THEN "metadata" ELSE "other",
                   sources |-> body.sources]
             ELSE JsonError

\* positions at which d occurs in s
Occurrences(s, d) ==
    {i \in 1..(Len(s) - Len(d) + 1) : SubSeq(s, i, i + Len(d) - 1) = d}

\* d in s
Contains(s, d) == Occurrences(s, d) # {}

Min(S) == CHOOSE x \in S : \A y \in S : x <= y

Max(S) == CHOOSE x \in S : \A y \in S : x >= y

\* a split at the last occurrence of d instead of the first
SplitAtLast(s, d) ==
    LET i == Max(Occurrences(s, d))
    IN  <<SubSeq(s, 1, i - 1), SubSeq(s, i + Len(d), Len(s))>>

\* s.split(d, 1) when d occurs in s
SplitOnce(s, d) ==
    LET i == Min(Occurrences(s, d))
    IN  <<SubSeq(s, 1, i - 1), SubSeq(s, i + Len(d), Len(s))>>

\* the body generate_response_stream produces for these sources and text
WireStream(srcs, text) ==
    JsonDumps([type |-> "metadata", sources |-> srcs]) \o Delim \o text

(***************************************************************************)
(* web-ui main(): the loop over response.iter_text().                      *)
(***************************************************************************)
CInit ==
    /\ wireSources \in SeqsUpTo(Titles, MaxSources)
    /\ wireText \in WireTexts
    /\ stream = WireStream(wireSources, wireText)
    /\ pos = 0
    /\ buffer = <<>>
    /\ metadata_received = FALSE
    /\ sources = <<>>
    /\ full_response = <<>>
    /\ cpc = "reading"
    /\ splits = 0
    /\ bytewise = TRUE

\* the guard of the metadata extraction
MetadataPending(received, buf) == ~received /\ Contains(buf, Delim)

\* one iteration of the loop, for a read of k characters
ClientRead ==
    /\ cpc = "reading"
    /\ \E k \in 1..(Len(stream) - pos) :
        LET chunk == SubSeq(stream, pos + 1, pos + k)
            buffer1 == buffer \o chunk
            pending == MetadataPending(metadata_received, buffer1)
            parts == SplitOnce(buffer1, Delim)
            metadata == JsonLoads(parts[1])
            accepted == pending /\ metadata.ok /\ metadata.type = "metadata"
        IN  /\ pos' = pos + k
            /\ bytewise' = (bytewise /\ k = 1)
            /\ splits' = IF pending THEN splits + 1 ELSE splits
            /\ sources' = IF accepted THEN metadata.sources ELSE sources
            /\ metadata_received' = (metadata_received \/ accepted)
            /\ buffer' = IF accepted THEN parts[2] ELSE buffer1
            /\ full_response' = IF metadata_received' THEN buffer' ELSE full_response
    /\ UNCHANGED <<stream, cpc, wireSources, wireText>>
    /\ UNCHANGED <<qvars, ivars, evars, gvars>>

\* the stream is exhausted: the final update after the loop
ClientFinish ==
    /\ cpc = "reading"
    /\ pos = Len(stream)
    /\ cpc' = "finished"
    /\ UNCHANGED <<stream, pos, buffer, metadata_received, sources, full_response,
                   splits, bytewise, wireSources, wireText>>
    /\ UNCHANGED <<qvars, ivars, evars, gvars>>

CNext ==
    \/ ClientRead
    \/ ClientFinish

\* the orchestrator while the consumer alone is followed
QIdle ==
    /\ payload = [user_query |-> "q", top_k_kind |-> "missing", top_k |-> 0]
    /\ request = NoRequest
    /\ pc = "idle"
    /\ status = 0
    /\ query_vector = EmptyDict
    /\ contexts = <<>>
    /\ prompt = NoPrompt
    /\ out = <<>>
    /\ lines = <<>>
    /\ encCalls = 0
    /\ searchCalls = 0
    /\ genCalls = 0
    /\ searchBody = NoBody
    /\ encOutcome = "none"
    /\ searchOutcome = "none"
    /\ genOutcome = "none"

(***************************************************************************)
(* The indexer (src/indexer/index_data.py).                                *)
(*                                                                         *)
(* The document source, the encoder service and the backing store are      *)
(* external.  The document source serves a list of pages; a page's content *)
(* is carried by the number of chunks the text splitter cuts it into.  The *)
(* encoder's answer to a chunk is fixed by the parity of the chunk's index *)
(* (profile), so that a run over long documents stays deterministic in the *)
(* vectors while liveness probes, page fetches and bulk writes each answer *)
(* nondeterministically.                                                   *)
(***************************************************************************)
MaxRetries == 20      \* main(): max_retries
BatchSize == 50       \* index_documents(): len(actions) >= 50
MaxPages == 2         \* longest page list the document source serves

\* entries of the page list: the last one carries no title
PageKinds ==
    {[hasTitle |-> TRUE, title |-> "A", nchunks |-> BatchSize + 1],
     [hasTitle |-> TRUE, title |-> "B", nchunks |-> 2],
     [hasTitle |-> FALSE, title |-> "", nchunks |-> 1]}

PageLists == SeqsUpTo(PageKinds, MaxPages)

\* answers of the encoder service to the indexer
IngestAnswerKinds == {"fail", "empty", "nonpositive", "mixed", "positive"}

IngestAnswer(kind) ==
    CASE kind = "nonpositive" -> [a |-> 0, b |-> 0 - 1]
      [] kind = "mixed" -> [a |-> 1, b |-> 0]
      [] kind = "positive" -> [a |-> 1, b |-> 2]
      [] OTHER -> EmptyDict

EncoderProfiles == [{0, 1} -> IngestAnswerKinds]

\* get_sparse_vector: every exception is turned into an empty vector
get_sparse_vector(kind) == IF kind = "fail" THEN EmptyDict ELSE IngestAnswer(kind)

\* the filter keeping the entries that are not negative
FilterNonNegative(v) == [k \in {t \in DOMAIN v : v[t] >= 0} |-> v[k]]

\* {k: v for k, v in sparse_vector.items() if v > 0}
FilterPositive(v) == [k \in {t \in DOMAIN v : v[t] > 0} |-> v[k]]

\* the bulk action of chunk i of a document, numbered from 1
BulkActionOneBased(doc, i, filtered_vector) ==
    [title |-> doc.title, content |-> <<doc.title, i>>, url |-> doc.url,
     sparse_vector |-> filtered_vector, chunk_id |-> i + 1]

\* the bulk action of chunk i of a document
BulkAction(doc, i, filtered_vector) ==
    [title |-> doc.title, content |-> <<doc.title, i>>, url |-> doc.url,
     sparse_vector |-> filtered_vector, chunk_id |-> i]

\* the document fetch_scrapbox_pages builds from a page
DocOf(page) ==
    [title |-> page.title, nchunks |-> page.nchunks, url |-> <<"scrapbox.io", page.title>>]

\* a buffer flushed only once it holds more than BatchSize actions
batch_full_late(acts) == Len(acts) > BatchSize

\* if len(actions) >= 50
batch_full(acts) == Len(acts) >= BatchSize

\* create_index without the existence check
create_index_unchecked(exists) == [createCall |-> TRUE]

\* create_index: whether es.indices.create is called, given the existence check
create_index(exists) == [createCall |-> ~exists]

\* run_batch printing the error without raising it again
run_batch_swallowing(outcome) ==
    [committed |-> (outcome = "ok"), raised |-> FALSE]

\* run_batch: whether the batch is committed and whether the error is raised
run_batch(outcome) ==
    [committed |-> (outcome = "ok"), raised |-> (outcome = "rejected")]

\* the per-run state at the start of a run
RunStart ==
    /\ ipc = "probe"
    /\ attempts = 0
    /\ connected = FALSE
    /\ createCalls = 0
    /\ existedAtCheck = "unknown"
    /\ pageIdx = 0
    /\ pageOutcomes = <<>>
    /\ fetchCalls = 0
    /\ docs = <<>>
    /\ docIdx = 0
    /\ chunkIdx = 0
    /\ actions = <<>>
    /\ written = <<>>
    /\ encoded = 0
    /\ encFailed = FALSE
    /\ rejected = FALSE
    /\ failure = "none"
    /\ result = "running"

IInit ==
    /\ pages \in PageLists
    /\ profile \in EncoderProfiles
    /\ indexExists \in BOOLEAN
    /\ creations = 0
    /\ RunStart

\* the indexer while no run is followed
IIdle ==
    /\ pages = <<>>
    /\ profile = [n \in {0, 1} |-> "empty"]
    /\ indexExists = FALSE
    /\ creations = 0
    /\ RunStart

\* the readiness loop without the return of main() when never connected
ProbeThenProceed ==
    /\ ipc = "probe"
    /\ attempts < MaxRetries
    /\ \E ping \in {"up", "down", "raise"} :
        IF ping = "up"
        THEN /\ attempts' = 0
             /\ connected' = TRUE
             /\ ipc' = "create"
             /\ UNCHANGED result
        ELSE /\ attempts' = attempts + 1
             /\ connected' = connected
             /\ ipc' = IF attempts + 1 = MaxRetries THEN "create" ELSE ipc
             /\ UNCHANGED result
    /\ UNCHANGED <<indexExists, creations, createCalls, existedAtCheck, pages, profile,
                   pageIdx, pageOutcomes, fetchCalls, docs, docIdx, chunkIdx, actions,
                   written, encoded, encFailed, rejected, failure>>
    /\ UNCHANGED <<qvars, cvars, evars, gvars>>

(***************************************************************************)
(* main(): one iteration of the readiness loop; after the last one, the    *)
(* run gives up when the store never answered.                             *)
(***************************************************************************)
Probe ==
    /\ ipc = "probe"
    /\ attempts < MaxRetries
    /\ \E ping \in {"up", "down", "raise"} :
        IF ping = "up"
        THEN /\ attempts' = 0
             /\ connected' = TRUE
             /\ ipc' = "create"
             /\ UNCHANGED result
        ELSE /\ attempts' = attempts + 1
             /\ connected' = connected
             /\ ipc' = IF attempts + 1 = MaxRetries THEN "ended" ELSE ipc
             /\ result' = IF attempts + 1 = MaxRetries THEN "no_connection" ELSE result
    /\ UNCHANGED <<indexExists, creations, createCalls, existedAtCheck, pages, profile,
                   pageIdx, pageOutcomes, fetchCalls, docs, docIdx, chunkIdx, actions,
                   written, encoded, encFailed, rejected, failure>>
    /\ UNCHANGED <<qvars, cvars, evars, gvars>>

(***************************************************************************)
(* main(): create_index(); whatever it raises ends the run.                *)
(***************************************************************************)
CreateIndex ==
    /\ ipc = "create"
    /\ \/ \* es.indices.exists raises
          /\ failure' = "exists"
          /\ result' = "exception"
          /\ ipc' = "ended"
          /\ UNCHANGED <<indexExists, creations, createCalls, existedAtCheck>>
       \/ LET plan == create_index(indexExists)
          IN  /\ existedAtCheck' = IF indexExists THEN "yes" ELSE "no"
              /\ IF ~plan.createCall
                 THEN /\ ipc' = "fetch_list"
                      /\ UNCHANGED <<indexExists, creations, createCalls, failure, result>>
                 ELSE /\ createCalls' = createCalls + 1
                      /\ \E accepted \in BOOLEAN :
                          IF accepted /\ ~indexExists
                          THEN /\ indexExists' = TRUE
                               /\ creations' = creations + 1
                               /\ ipc' = "fetch_list"
                               /\ UNCHANGED <<failure, result>>
                          ELSE /\ failure' = "create"
                               /\ result' = "exception"
                               /\ ipc' = "ended"
                               /\ UNCHANGED <<indexExists, creations>>
    /\ UNCHANGED <<attempts, connected, pages, profile, pageIdx, pageOutcomes, fetchCalls,
                   docs, docIdx, chunkIdx, actions, written, encoded, encFailed, rejected>>
    /\ UNCHANGED <<qvars, cvars, evars, gvars>>

(***************************************************************************)
(* fetch_scrapbox_pages: the request for the page list.                    *)
(***************************************************************************)
FetchList ==
    /\ ipc = "fetch_list"
    /\ fetchCalls' = fetchCalls + 1
    /\ \E ok \in BOOLEAN :
        IF ok /\ pages # <<>>
        THEN /\ ipc' = "fetch_page"
             /\ UNCHANGED result
        ELSE /\ ipc' = "ended"
             /\ result' = "no_documents"
    /\ UNCHANGED <<attempts, connected, indexExists, creations, createCalls,
                   existedAtCheck, pages, profile, pageIdx, pageOutcomes, docs, docIdx,
                   chunkIdx, actions, written, encoded, encFailed, rejected, failure>>
    /\ UNCHANGED <<qvars, cvars, evars, gvars>>

(***************************************************************************)
(* fetch_scrapbox_pages: one iteration of the loop over pages_data.  The   *)
(* title is quoted before the try block: a page without a title raises     *)
(* there.  After the last page main() goes on to index_documents, or ends  *)
(* when no document was fetched.                                           *)
(***************************************************************************)
FetchPage ==
    /\ ipc = "fetch_page"
    /\ pageIdx < Len(pages)
    /\ LET page == pages[pageIdx + 1]
           last == (pageIdx + 1 = Len(pages))
       IN  IF ~page.hasTitle
           THEN /\ pageOutcomes' = Append(pageOutcomes, "raised")
                /\ failure' = "page"
                /\ result' = "exception"
                /\ ipc' = "ended"
                /\ UNCHANGED <<pageIdx, fetchCalls, docs, docIdx>>
           ELSE /\ fetchCalls' = fetchCalls + 1
                /\ pageIdx' = pageIdx + 1
                /\ \E ok \in BOOLEAN :
                    /\ pageOutcomes' = Append(pageOutcomes, IF ok THEN "ok" ELSE "failed")
                    /\ docs' = IF ok THEN Append(docs, DocOf(page)) ELSE docs
                /\ ipc' = IF ~last THEN ipc ELSE IF docs' = <<>> THEN "ended" ELSE "index"
                /\ result' = IF last /\ docs' = <<>> THEN "no_documents" ELSE result
                /\ docIdx' = IF last /\ docs' # <<>> THEN 1 ELSE docIdx
                /\ UNCHANGED failure
    /\ UNCHANGED <<attempts, connected, indexExists, creations, createCalls,
                   existedAtCheck, pages, profile, chunkIdx, actions, written, encoded,
                   encFailed, rejected>>
    /\ UNCHANGED <<qvars, cvars, evars, gvars>>

(***************************************************************************)
(* index_documents: one iteration of the loop over the chunks of the       *)
(* documents, with the flush of a full batch.                              *)
(***************************************************************************)
IndexChunk ==
    /\ ipc = "index"
    /\ LET doc == docs[docIdx]
           answer == profile[chunkIdx % 2]
           vector == get_sparse_vector(answer)
           filtered_vector == FilterPositive(vector)
           kept == DOMAIN vector # {} /\ DOMAIN filtered_vector # {}
           actions1 == IF kept
                       THEN Append(actions, BulkAction(doc, chunkIdx, filtered_vector))
                       ELSE actions
           flush == kept /\ batch_full(actions1)
           lastChunk == (chunkIdx + 1 = doc.nchunks)
           lastDoc == (docIdx = Len(docs))
       IN  /\ encoded' = encoded + 1
           /\ encFailed' = (encFailed \/ answer = "fail")
           /\ \E outcome \in {"ok", "rejected"} :
                LET batch == run_batch(outcome)
                IN  /\ flush \/ outcome = "ok"
                    /\ rejected' = (rejected \/ (flush /\ outcome = "rejected"))
                    /\ IF flush /\ batch.raised
                       THEN /\ failure' = "bulk"
                            /\ result' = "exception"
                            /\ ipc' = "ended"
                            /\ actions' = actions1
                            /\ UNCHANGED <<written, docIdx, chunkIdx>>
                       ELSE /\ written' = IF flush /\ batch.committed
                                          THEN Append(written, actions1)
                                          ELSE written
                            /\ actions' = IF flush THEN <<>> ELSE actions1
                            /\ chunkIdx' = IF lastChunk THEN 0 ELSE chunkIdx + 1
                            /\ docIdx' = IF lastChunk /\ ~lastDoc THEN docIdx + 1 ELSE docIdx
                            /\ ipc' = IF lastChunk /\ lastDoc THEN "final_flush" ELSE ipc
                            /\ UNCHANGED <<failure, result>>
    /\ UNCHANGED <<attempts, connected, indexExists, creations, createCalls,
                   existedAtCheck, pages, profile, pageIdx, pageOutcomes, fetchCalls,
                   docs>>
    /\ UNCHANGED <<qvars, cvars, evars, gvars>>

\* index_documents returning without the flush of what is left in actions
FinalFlushSkipped ==
    /\ ipc = "final_flush"
    /\ written' = written
    /\ actions' = actions
    /\ result' = "success"
    /\ ipc' = "ended"
    /\ UNCHANGED <<attempts, connected, indexExists, creations, createCalls,
                   existedAtCheck, pages, profile, pageIdx, pageOutcomes, fetchCalls,
                   docs, docIdx, chunkIdx, encoded, encFailed, rejected, failure>>
    /\ UNCHANGED <<qvars, cvars, evars, gvars>>

(***************************************************************************)
(* index_documents: the flush of what is left after the loops, then the    *)
(* report of a successful run by index_documents and main.                 *)
(***************************************************************************)
FinalFlush ==
    /\ ipc = "final_flush"
    /\ \E outcome \in {"ok", "rejected"} :
        LET batch == run_batch(outcome)
        IN  /\ actions # <<>> \/ outcome = "ok"
            /\ rejected' = (rejected \/ (actions # <<>> /\ outcome = "rejected"))
            /\ IF actions # <<>> /\ batch.raised
               THEN /\ failure' = "bulk"
                    /\ result' = "exception"
                    /\ UNCHANGED <<written, actions>>
               ELSE /\ written' = IF actions # <<>> /\ batch.committed
                                  THEN Append(written, actions)
                                  ELSE written
                    /\ actions' = actions
                    /\ result' = "success"
                    /\ UNCHANGED failure
    /\ ipc' = "ended"
    /\ UNCHANGED <<attempts, connected, indexExists, creations, createCalls,
                   existedAtCheck, pages, profile, pageIdx, pageOutcomes, fetchCalls,
                   docs, docIdx, chunkIdx, encoded, encFailed>>
    /\ UNCHANGED <<qvars, cvars, evars, gvars>>

\* the indexer is started again against the same store and document source
Rerun ==
    /\ ipc = "ended"
    /\ ipc' = "probe"
    /\ attempts' = 0
    /\ connected' = FALSE
    /\ createCalls' = 0
    /\ existedAtCheck' = "unknown"
    /\ pageIdx' = 0
    /\ pageOutcomes' = <<>>
    /\ fetchCalls' = 0
    /\ docs' = <<>>
    /\ docIdx' = 0
    /\ chunkIdx' = 0
    /\ actions' = <<>>
    /\ written' = <<>>
    /\ encoded' = 0
    /\ encFailed' = FALSE
    /\ rejected' = FALSE
    /\ failure' = "none"
    /\ result' = "running"
    /\ UNCHANGED <<indexExists, creations, pages, profile>>
    /\ UNCHANGED <<qvars, cvars, evars, gvars>>

INext ==
    \/ Probe
    \/ CreateIndex
    \/ FetchList
    \/ FetchPage
    \/ IndexChunk
    \/ FinalFlush
    \/ Rerun

(***************************************************************************)
(* The encoder service (src/splade-api/main.py).  Activations and weights  *)
(* are counted in units of 0.00001.                                        *)
(***************************************************************************)
MaxPositions == 2     \* longest tokenized input

Vocabulary == {"a.b", "c"}
Positions == 1..MaxPositions
LogitLevels == {0 - 50000, 0, 3, 7, 100000}

\* attention masks: real tokens first, padding after them
AttentionMasks ==
    {[p \in Positions |-> IF p <= n THEN 1 ELSE 0] : n \in Positions}

\* torch.relu
Relu(x) == IF x > 0 THEN x ELSE 0

\* torch.log1p on the activations that occur: log(1 + 1) = 0.69314...,
\* log(1 + 0.00007) = 0.00007 and log(1 + 0.00003) = 0.00003 to five places
Log1p(x) == IF x = 100000 THEN 69314 ELSE x

MaxOf(S) == CHOOSE x \in S : \A y \in S : x >= y

\* torch.max(log1p(relu(logits)) * attention_mask, dim=1).values
AggregatedWeights(lg, mask) ==
    [t \in Vocabulary |-> MaxOf({Log1p(Relu(lg[p][t])) * mask[p] : p \in Positions})]

\* token.replace(".", "_")
SafeToken(token) == IF token = "a.b" THEN "a_b" ELSE token

\* round(weight, 4)
Round4(w) == ((w + 5) \div 10) * 10

\* the dictionary encode builds from the aggregated weights
SparseVectorOf(weights) ==
    LET indices == {t \in Vocabulary : weights[t] # 0}
        kept == {t \in indices : weights[t] > 0}
    IN  [k \in {SafeToken(t) : t \in kept} |->
            LET t == CHOOSE u \in kept : SafeToken(u) = k IN Round4(weights[t])]

EInit ==
    /\ logits \in [Positions -> [Vocabulary -> LogitLevels]]
    /\ attention_mask \in AttentionMasks
    /\ epc = "called"
    /\ sparse_vector = EmptyDict

\* the encoder service while no call is followed
EIdle ==
    /\ logits = [p \in Positions |-> [t \in Vocabulary |-> 0]]
    /\ attention_mask = [p \in Positions |-> 1]
    /\ epc = "idle"
    /\ sparse_vector = EmptyDict

\* encode(): the response is built
Encode ==
    /\ epc = "called"
    /\ sparse_vector' = SparseVectorOf(AggregatedWeights(logits, attention_mask))
    /\ epc' = "returned"
    /\ UNCHANGED <<logits, attention_mask>>
    /\ UNCHANGED <<qvars, cvars, ivars, gvars>>

\* encode(): an exception during inference becomes HTTPException(500)
EncodeRaises ==
    /\ epc = "called"
    /\ epc' = "raised"
    /\ UNCHANGED <<logits, attention_mask, sparse_vector>>
    /\ UNCHANGED <<qvars, cvars, ivars, gvars>>

ENext ==
    \/ Encode
    \/ EncodeRaises

(***************************************************************************)
(* eval get_rag_response: the loop over response.aiter_text().  The body   *)
(* is the one generate_response_stream produces; a source of the metadata  *)
(* frame has the keys title, url and score, and no key content.            *)
(***************************************************************************)
Dashes == <<"-", "-", "-">>                  \* "---"

\* str.strip(): the line feeds at both ends removed
RECURSIVE LStrip(_)
LStrip(s) == IF s # <<>> /\ Head(s) = "LF" THEN LStrip(Tail(s)) ELSE s

RECURSIVE RStrip(_)
RStrip(s) ==
    IF s # <<>> /\ s[Len(s)] = "LF" THEN RStrip(SubSeq(s, 1, Len(s) - 1)) ELSE s

Strip(s) == RStrip(LStrip(s))

\* the guard of the metadata branch: "---" in chunk and not full_answer
MetadataBranch(chunk, ans) == Contains(chunk, Dashes) /\ ans = <<>>

\* the metadata branch of the loop body: the new full_answer and contexts.
\* json.loads failing, and s["content"] failing on a source, both end in
\* the bare except, which leaves full_answer and contexts as they were.
MetadataBranchResult(chunk, ans, ctxs) ==
    LET parts == SplitOnce(chunk, Dashes)
        meta_data == JsonLoads(Strip(parts[1]))
        keyError == meta_data.ok /\ meta_data.type = "metadata" /\ meta_data.sources # <<>>
    IN  IF ~meta_data.ok \/ keyError
        THEN [full_answer |-> ans, contexts |-> ctxs]
        ELSE [full_answer |-> ans \o Strip(parts[2]),
              contexts |-> IF meta_data.type = "metadata" THEN <<>> ELSE ctxs]

GInit ==
    /\ eval_status \in {StatusOK, ServiceUnavailable}
    /\ eval_sources \in SeqsUpTo(Titles, MaxSources)
    /\ eval_text \in WireTexts
    /\ eval_status # StatusOK => (eval_sources = <<>> /\ eval_text = <<>>)
    /\ eval_stream = IF eval_status = StatusOK
                     THEN WireStream(eval_sources, eval_text)
                     ELSE <<>>
    /\ eval_pos = 0
    /\ full_answer = <<>>
    /\ eval_contexts = <<>>
    /\ eval_pc = "opened"
    /\ eval_answer = <<>>

\* the evaluation client while no stream is being read
GIdle ==
    /\ eval_status = 0
    /\ eval_stream = <<>>
    /\ eval_pos = 0
    /\ full_answer = <<>>
    /\ eval_contexts = <<>>
    /\ eval_pc = "idle"
    /\ eval_answer = <<>>
    /\ eval_sources = <<>>
    /\ eval_text = <<>>

\* if response.status_code != 200: return None, None
EvalStatusCheck ==
    /\ eval_pc = "opened"
    /\ eval_pc' = IF eval_status # StatusOK THEN "returned_none" ELSE "reading"
    /\ UNCHANGED <<eval_status, eval_stream, eval_pos, full_answer, eval_contexts,
                   eval_answer, eval_sources, eval_text>>
    /\ UNCHANGED <<qvars, cvars, ivars, evars>>

\* one iteration of the loop, for a read of k characters
EvalRead ==
    /\ eval_pc = "reading"
    /\ \E k \in 1..(Len(eval_stream) - eval_pos) :
        LET chunk == SubSeq(eval_stream, eval_pos + 1, eval_pos + k)
            branch == MetadataBranchResult(chunk, full_answer, eval_contexts)
        IN  /\ eval_pos' = eval_pos + k
            /\ IF MetadataBranch(chunk, full_answer)
               THEN /\ full_answer' = branch.full_answer
                    /\ eval_contexts' = branch.contexts
               ELSE /\ full_answer' = full_answer \o chunk
                    /\ eval_contexts' = eval_contexts
    /\ UNCHANGED <<eval_status, eval_stream, eval_pc, eval_answer, eval_sources, eval_text>>
    /\ UNCHANGED <<qvars, cvars, ivars, evars>>

\* the stream is exhausted: return full_answer.strip(), contexts
EvalReturn ==
    /\ eval_pc = "reading"
    /\ eval_pos = Len(eval_stream)
    /\ eval_answer' = Strip(full_answer)
    /\ eval_pc' = "returned"
    /\ UNCHANGED <<eval_status, eval_stream, eval_pos, full_answer, eval_contexts,
                   eval_sources, eval_text>>
    /\ UNCHANGED <<qvars, cvars, ivars, evars>>

\* the request or a read raises: except Exception: return None, None
EvalTransportError ==
    /\ eval_pc \in {"opened", "reading"}
    /\ eval_pc' = "returned_none"
    /\ UNCHANGED <<eval_status, eval_stream, eval_pos, full_answer, eval_contexts,
                   eval_answer, eval_sources, eval_text>>
    /\ UNCHANGED <<qvars, cvars, ivars, evars>>

GNext ==
    \/ EvalStatusCheck
    \/ EvalRead
    \/ EvalReturn
    \/ EvalTransportError

vars == <<qvars, cvars, ivars, evars, gvars>>

Init == QInit /\ CIdle /\ IIdle /\ EIdle /\ GIdle
Next == QNext
Spec == Init /\ [][Next]_vars

InitCodec == CInit /\ QIdle /\ IIdle /\ EIdle /\ GIdle
SpecCodec == InitCodec /\ [][CNext]_vars

InitIngest == IInit /\ QIdle /\ CIdle /\ EIdle /\ GIdle
SpecIngest == InitIngest /\ [][INext]_vars

InitEncode == EInit /\ QIdle /\ CIdle /\ IIdle /\ GIdle
SpecEncode == InitEncode /\ [][ENext]_vars

InitEval == GInit /\ QIdle /\ CIdle /\ IIdle /\ EIdle
SpecEval == InitEval /\ [][GNext]_vars

(***************************************************************************)
(* Properties of the query pipeline, checked under Spec.                   *)
(***************************************************************************)
StreamOpen == pc \in {"stream_connect", "stream_lines", "done", "crashed"}
EncoderFailed == encOutcome \in {"unreachable", "status_error", "bad_body"}
GeneratorFailed == genOutcome \in {"unreachable", "bad_status", "transport"}
ErrorUnits == {i \in 1..Len(out) : out[i].kind = "error"}

\* C1: once the stream has started, its first unit is the metadata frame of
\* the request's contexts followed by the delimiter; no later unit is a
\* metadata frame; nothing is emitted before the stream starts. This holds
\* however the generator call ends.
C1_MetadataFirstAndOnce ==
    /\ StreamOpen => Len(out) >= 1
    /\ ~StreamOpen => out = <<>>
    /\ out # <<>> =>
        /\ out[1] = MetadataFrame(contexts)
        /\ out[1].kind = "metadata" /\ out[1].text = "\n---\n"
        /\ \A i \in 2..Len(out) : out[i].kind # "metadata"

\* C1 witness: a stream whose generator raised after text was streamed.
C1_Witness ==
    /\ pc = "crashed"
    /\ Len(out) >= 2
    /\ out[1].kind = "metadata"
    /\ out[1].sources # <<>>

\* C3: when the encoder is unreachable or answers a non-success status, the
\* request has failed with 503, no unit was emitted, and neither the search
\* nor the generator was called.
C3_EncoderFailureIs503 ==
    encOutcome \in {"unreachable", "status_error"} =>
        /\ pc = "failed"
        /\ status = ServiceUnavailable
        /\ out = <<>>
        /\ prompt = NoPrompt
        /\ searchCalls = 0
        /\ genCalls = 0

\* C3 witness: the encoder answered a non-success status.
C3_Witness == encOutcome = "status_error" /\ encCalls = 1 /\ pc = "failed"

\* C4: when the search call fails, the hit list is empty and the request
\* goes on: no error response is produced, the prompt is the
\* general-knowledge one and the metadata frame lists no source. The step in
\* which the search fails leads to prompt assembly.
C4_Inv ==
    searchOutcome = "error" =>
        /\ searchCalls = 1
        /\ contexts = <<>>
        /\ pc \notin {"failed", "rejected"}
        /\ status \in {0, StatusOK}
        /\ prompt # NoPrompt => prompt.kind = "general" /\ prompt.items = <<>>
        /\ out # <<>> => out[1].kind = "metadata" /\ out[1].sources = <<>>
        /\ pc = "crashed" => genOutcome = "raised"

C4_SearchFailureDegrades ==
    /\ []C4_Inv
    /\ [][(searchOutcome' = "error" /\ searchOutcome # "error") => pc' = "prompting"]_vars

\* C4 witness: a request whose search failed and whose stream ended normally
\* with generated text.
C4_Witness ==
    /\ searchOutcome = "error"
    /\ pc = "done"
    /\ genOutcome = "exhausted"
    /\ Len(out) >= 2

\* C5: when the generator is unreachable, answers a non-success status or
\* fails in transport while its body is read, exactly one error fragment is
\* appended to what the stream already holds (the metadata frame and the
\* text emitted so far) and the stream ends normally.
C5_Inv ==
    GeneratorFailed =>
        /\ pc = "done"
        /\ status = StatusOK
        /\ Len(out) >= 2
        /\ out[1].kind = "metadata"
        /\ ErrorUnits = {Len(out)}

C5_GeneratorFailureInline ==
    /\ []C5_Inv
    /\ [][(GeneratorFailed' /\ ~GeneratorFailed) =>
            /\ Len(out') = Len(out) + 1
            /\ SubSeq(out', 1, Len(out)) = out]_vars

\* C5 witness: a transport failure after text was streamed.
C5_Witness ==
    /\ genOutcome = "transport"
    /\ Len(out) >= 3
    /\ out[2].kind = "text"

\* C6 (as claimed): a request ends without a normally finished stream only
\* when the payload was invalid or vectorization failed.
C6_OnlyEncoderOrPayloadAborts ==
    pc \in {"rejected", "failed", "crashed"} =>
        \/ ~QueryRequestValid(payload)
        \/ EncoderFailed

StageOf(p) ==
    CASE p = "received" -> 0
      [] p = "vectorizing" -> 1
      [] p = "retrieving" -> 2
      [] p = "prompting" -> 3
      [] p \in {"stream_metadata", "stream_connect", "stream_lines"} -> 4
      [] p = "done" -> 5
      [] OTHER -> 9

StreamStep(p) ==
    CASE p = "stream_metadata" -> 1
      [] p = "stream_connect" -> 2
      [] p = "stream_lines" -> 3
      [] OTHER -> 0

\* C7: a request moves from each stage to the next one only (or ends in an
\* error), never back and never past a stage; the search is issued only
\* with the vector the encoder returned, the prompt is built only from the
\* contexts the search stage returned, and the generator is called only
\* after the prompt is built and the metadata frame is emitted.
C7_Inv ==
    /\ searchOutcome # "none" => encOutcome \in {"ok", "no_key"}
    /\ searchCalls > 0 =>
        /\ encOutcome = "ok"
        /\ searchBody = SearchRequestBody(query_vector, request.top_k)
    /\ prompt # NoPrompt =>
        /\ searchOutcome # "none"
        /\ prompt = build_prompt(request.user_query, contexts)
    /\ genCalls > 0 =>
        /\ prompt # NoPrompt
        /\ Len(out) >= 1
        /\ out[1].kind = "metadata"

C7_Step ==
    pc' # pc =>
        \/ StageOf(pc') = StageOf(pc) + 1
        \/ StageOf(pc') = 9 /\ StageOf(pc) < 5
        \/ /\ StageOf(pc') = 4 /\ StageOf(pc) = 4
           /\ StreamStep(pc') = StreamStep(pc) + 1

C7_StagesInOrder == []C7_Inv /\ [][C7_Step]_vars

\* C7 witness: a request that went through every stage, with a search and a
\* generator call, up to the completion flag.
C7_Witness ==
    /\ pc = "done"
    /\ searchCalls = 1
    /\ genCalls = 1
    /\ genOutcome = "completed"

\* C8: after search_documents ran on an empty vector, no search call was
\* issued and the hit list is empty, whatever top_k is.
C8_EmptyVectorNoSearch ==
    (searchOutcome # "none" /\ DOMAIN query_vector = {}) =>
        /\ searchOutcome = "skipped"
        /\ searchCalls = 0
        /\ searchBody = NoBody
        /\ contexts = <<>>

\* C8 witness: a request with an explicit top_k whose encoder answered an
\* empty vector and whose stream has ended.
C8_Witness ==
    /\ encOutcome = "ok"
    /\ DOMAIN query_vector = {}
    /\ payload.top_k_kind = "int"
    /\ request.top_k = MaxTopK
    /\ pc = "done"

\* the payloads the claim calls malformed
PayloadMalformed(p) ==
    \/ p.user_query # "q"
    \/ p.top_k_kind = "nonint"
    \/ p.top_k_kind = "int" /\ p.top_k <= 0

\* C9 (as claimed): for a malformed payload no stage runs: no encoder, search
\* or generator call is issued and no stream is opened.
C9_MalformedPayloadRejected ==
    PayloadMalformed(payload) =>
        /\ encCalls = 0
        /\ searchCalls = 0
        /\ genCalls = 0
        /\ out = <<>>
        /\ status # StatusOK

IsDoneRecord(line) == line.kind = "object" /\ line.done
HasFragment(line) == line.kind = "object" /\ line.hasResponse
IsTextUnit(unit) == unit.kind = "text"
DoneRecords == {i \in 1..Len(lines) : IsDoneRecord(lines[i])}

\* C11: a record with a true completion flag is the last record read: the
\* stream has ended with it and nothing is read or emitted afterwards; when
\* the backend's body ends without such a record the stream ends there.
\* While records are being read the end of the body ends the stream, and an
\* ended stream stays as it is.
C11_Inv ==
    /\ \A i \in DoneRecords : i = Len(lines) /\ pc = "done" /\ genOutcome = "completed"
    /\ genOutcome = "completed" => DoneRecords = {Len(lines)}
    /\ genOutcome = "exhausted" => pc = "done" /\ DoneRecords = {}
    /\ pc = "stream_lines" => ENABLED GenExhausted

C11_StreamEndsOnCompletion ==
    /\ []C11_Inv
    /\ [][pc = "done" => (pc' = "done" /\ out' = out /\ lines' = lines)]_vars

\* C11 witness: the completion flag arrived on the first record, with text,
\* while the backend could have sent more records.
C11_Witness ==
    /\ genOutcome = "completed"
    /\ Len(lines) = 1
    /\ Len(lines) < MaxLines
    /\ Len(out) = 2

\* the fragments of the records read, in the order read
FragmentsRead ==
    LET withFragment == SelectSeq(lines, HasFragment)
    IN  [i \in 1..Len(withFragment) |-> withFragment[i].response]

\* the texts of the text units emitted, in the order emitted
TextEmitted ==
    LET textUnits == SelectSeq(out, IsTextUnit)
    IN  [i \in 1..Len(textUnits) |-> textUnits[i].text]

\* C12: the text units emitted are, one for one and in order, the fragments
\* of the object records read so far (the record carrying the completion
\* flag included); they follow the metadata frame directly and only one
\* error fragment may follow them.
C12_TextIsFragmentsInOrder ==
    /\ TextEmitted = FragmentsRead
    /\ \A i \in 2..Len(out) :
        \/ out[i].kind = "text"
        \/ out[i].kind = "error" /\ i = Len(out)

\* C12 witness: two different fragments were emitted, the second one on the
\* record carrying the completion flag.
C12_Witness ==
    /\ genOutcome = "completed"
    /\ Len(lines) = 2
    /\ lines[2].hasResponse
    /\ Len(out) = 3
    /\ out[2].text = "x" /\ out[3].text = "y"

\* C20: within one request the encoder, the index search and the generator
\* are each called at most once, and once a call has ended (failed or not)
\* it is not issued again.
C20_Inv ==
    /\ encCalls <= 1
    /\ searchCalls <= 1
    /\ genCalls <= 1
    /\ encCalls = (IF encOutcome = "none" THEN 0 ELSE 1)
    /\ searchCalls = (IF searchOutcome \in {"none", "skipped"} THEN 0 ELSE 1)

C20_NoRetries ==
    /\ []C20_Inv
    /\ [][/\ encOutcome # "none" => encCalls' = encCalls
          /\ searchOutcome # "none" => searchCalls' = searchCalls
          /\ genCalls > 0 => genCalls' = genCalls]_vars

\* C20 witness: the search and the generator both failed and the request
\* ended with one call to each service.
C20_Witness ==
    /\ encCalls = 1 /\ searchCalls = 1 /\ genCalls = 1
    /\ searchOutcome = "error"
    /\ genOutcome = "unreachable"
    /\ pc = "done"

\* C26: once the metadata frame has been emitted, its sources and the
\* items of the prompt are as many as the contexts of the request, the i-th
\* source and the i-th item (numbered i, from 1) carry the title and url of
\* the i-th context, the source its score and the item its content; the
\* sources are empty exactly when the prompt is the general-knowledge one.
\* The contexts are what the search stage returned: nothing changes them
\* after it.
C26_Inv ==
    out # <<>> =>
        LET srcs == out[1].sources
        IN  /\ Len(srcs) = Len(contexts)
            /\ Len(prompt.items) = Len(contexts)
            /\ \A i \in 1..Len(contexts) :
                /\ prompt.items[i].idx = i
                /\ prompt.items[i].title = contexts[i].title
                /\ prompt.items[i].url = contexts[i].url
                /\ prompt.items[i].content = contexts[i].content
                /\ srcs[i].title = contexts[i].title
                /\ srcs[i].url = contexts[i].url
                /\ srcs[i].score = contexts[i].score
            /\ (srcs = <<>>) <=> (prompt.kind = "general")
            /\ (srcs # <<>>) <=> (prompt.kind = "context")

C26_SourcesMatchPromptContexts ==
    /\ []C26_Inv
    /\ [][searchOutcome # "none" => contexts' = contexts]_vars

\* C26 witness: a request ended whose search returned two different hits.
C26_Witness ==
    /\ pc = "done"
    /\ Len(contexts) = 2
    /\ contexts[1] # contexts[2]
    /\ Len(out[1].sources) = 2
    /\ prompt.kind = "context"

(***************************************************************************)
(* Properties of the web-ui consumer, checked under SpecCodec.             *)
(***************************************************************************)
\* C2: however the stream is cut into reads, the split happens at most once
\* and, once it has happened, the sources are those serialized and the
\* response is what has been read after the first delimiter; when the
\* stream is exhausted the split has happened exactly once and the response
\* is the whole generated text.
C2_PartitionIndependent ==
    /\ splits <= 1
    /\ metadata_received =>
        /\ splits = 1
        /\ sources = wireSources
        /\ full_response =
             SubSeq(stream, Min(Occurrences(stream, Delim)) + Len(Delim), pos)
    /\ cpc = "finished" =>
        /\ metadata_received
        /\ sources = wireSources
        /\ full_response = wireText
        /\ full_response = SplitOnce(stream, Delim)[2]

\* C2 witness: a stream with a source and with a delimiter inside the
\* generated text, read one character at a time to its end.
C2_Witness ==
    /\ cpc = "finished"
    /\ bytewise
    /\ wireSources # <<>>
    /\ Contains(wireText, Delim)

\* C25: the serialized metadata frame holds no line feed followed by three
\* dashes and a line feed, whatever the titles; so the first delimiter of
\* the stream is the one the orchestrator emits right after the frame.
C25_FrameHasNoDelimiter ==
    cpc # "idle" =>
        LET frame == JsonDumps([type |-> "metadata", sources |-> wireSources])
        IN  /\ ~Contains(frame, Delim)
            /\ Min(Occurrences(stream, Delim)) = Len(frame) + 1
            /\ SplitOnce(stream, Delim)[1] = frame

\* C25 witness: the frame of a source whose title is the delimiter itself
\* has been received, in front of a text that holds the delimiter too.
C25_Witness ==
    /\ metadata_received
    /\ wireSources = <<Delim>>
    /\ Contains(wireText, Delim)
    /\ sources = <<Delim>>
    /\ ~bytewise

(***************************************************************************)
(* Properties of the indexer, checked under SpecIngest.                    *)
(***************************************************************************)
\* C13: when the store rejects a bulk write, the run has ended with the
\* error raised out of it and without a report of success; the step of the
\* rejection leaves the batches committed before it as they are, and
\* nothing follows a rejection in the run: no batch is written and no chunk
\* is encoded until the indexer is started again.
C13_Inv ==
    rejected =>
        /\ ipc = "ended"
        /\ result = "exception"
        /\ failure = "bulk"

C13_BulkRejectionAborts ==
    /\ []C13_Inv
    /\ [][/\ (rejected' /\ ~rejected) => written' = written
          /\ rejected => (ipc' = "probe" /\ written' = <<>> /\ encoded' = 0)]_vars

\* C13 witness: a batch was committed and a later batch was rejected.
C13_Witness ==
    /\ rejected
    /\ Len(written) >= 1
    /\ result = "exception"

\* C14: a run that never got a successful probe ends after MaxRetries
\* probes as a run without connection, having made no existence check, no
\* index creation, no request to the document source, no encoder call and
\* no bulk write; as long as it is not connected a run does none of these.
C14_NoConnectionNoMutation ==
    /\ result = "no_connection" =>
        /\ attempts = MaxRetries
        /\ ~connected
        /\ ipc = "ended"
    /\ (~connected /\ ipc # "probe") => result = "no_connection"
    /\ ~connected =>
        /\ existedAtCheck = "unknown"
        /\ createCalls = 0
        /\ fetchCalls = 0
        /\ encoded = 0
        /\ actions = <<>>
        /\ written = <<>>
    /\ (ipc = "probe" /\ attempts < MaxRetries) => result = "running"

\* C14 witness: a run over a non-empty page list gave up after MaxRetries
\* failed probes.
C14_Witness ==
    /\ result = "no_connection"
    /\ attempts = MaxRetries
    /\ pages # <<>>

\* C15 (as claimed): a run in which an encoder call failed or a bulk write
\* was rejected does not end reporting success.
C15_IngestFailureFatal ==
    (encFailed \/ rejected) => result # "success"

\* the documents of the pages handled so far whose fetch succeeded
RECURSIVE FetchedDocs(_)
FetchedDocs(k) ==
    IF k = 0 THEN <<>>
    ELSE IF pageOutcomes[k] = "ok"
         THEN Append(FetchedDocs(k - 1), DocOf(pages[k]))
         ELSE FetchedDocs(k - 1)

\* C16 (as claimed): no page makes the fetch raise, and once the page list
\* has been gone through the documents are those of all the pages whose own
\* fetch succeeded, in list order.
C16_PageFailureSkipped ==
    /\ failure # "page"
    /\ ipc \in {"index", "final_flush"} =>
        /\ Len(pageOutcomes) = Len(pages)
        /\ docs = FetchedDocs(Len(pages))

\* C17: a run calls es.indices.create at most once and only when the
\* existence check answered that the index is absent; on an existing index
\* the run makes no creation call and create_index does not fail; over any
\* number of runs the store accepts at most one creation.
C17_CreateIndexIdempotent ==
    /\ creations <= 1
    /\ creations = 1 => indexExists
    /\ createCalls <= 1
    /\ createCalls = 1 => existedAtCheck = "no"
    /\ existedAtCheck = "yes" => (createCalls = 0 /\ failure # "create")

\* C17 witness: a run created the index, and a later run found it and ended
\* with success without a creation call.
C17_Witness ==
    /\ creations = 1
    /\ existedAtCheck = "yes"
    /\ createCalls = 0
    /\ result = "success"

\* the bulk actions buffered or committed in this run
ActionsMade ==
    {actions[i] : i \in 1..Len(actions)}
    \cup UNION {{written[b][i] : i \in 1..Len(written[b])} : b \in 1..Len(written)}

\* C19: every sparse_vector buffered for a bulk write or committed is
\* non-empty and holds strictly positive weights only.
C19_WrittenVectorsPositive ==
    \A a \in ActionsMade :
        /\ DOMAIN a.sparse_vector # {}
        /\ \A k \in DOMAIN a.sparse_vector : a.sparse_vector[k] > 0

\* C19 witness: a batch was committed in a run whose encoder answers hold a
\* zero entry on even chunks and only non-positive entries on odd chunks.
C19_Witness ==
    /\ written # <<>>
    /\ profile[0] = "mixed"
    /\ profile[1] = "nonpositive"

\* the actions of the committed batches, in write order
RECURSIVE Flatten(_)
Flatten(batches) ==
    IF batches = <<>> THEN <<>> ELSE Head(batches) \o Flatten(Tail(batches))

\* the vector the encoder service answers for chunk i, empty when the call fails
EncodedVector(i) == IngestAnswer(profile[i % 2])

\* chunk i has an encoded vector with at least one positive weight
HasPositiveWeight(i) == \E k \in DOMAIN EncodedVector(i) : EncodedVector(i)[k] > 0

\* the chunk positions of a document with a positive weight, in source order
KeptPositions(doc) ==
    SelectSeq([j \in 1..doc.nchunks |-> j - 1], HasPositiveWeight)

\* the (document, chunk position) pairs with a positive weight, in source order
RECURSIVE KeptChunks(_)
KeptChunks(d) ==
    IF d = 0 THEN <<>>
    ELSE KeptChunks(d - 1) \o
         [j \in 1..Len(KeptPositions(docs[d])) |->
             [title |-> docs[d].title, position |-> KeptPositions(docs[d])[j]]]

\* the (title, chunk_id) pairs of the committed actions, in write order
WrittenChunks ==
    LET flat == Flatten(written)
    IN  [j \in 1..Len(flat) |-> [title |-> flat[j].title, position |-> flat[j].chunk_id]]

\* how often e occurs in the sequence s
CountIn(e, s) == Cardinality({j \in 1..Len(s) : s[j] = e})

\* C21: when a run has ended with success, every chunk with a positive
\* weight in its encoded vector is in the committed batches as often as it
\* is in the documents (once per document holding it), a chunk with an
\* empty vector is in none, and every action left in the buffer of
\* index_documents is in the last committed batch.
C21_ChunksWrittenOnce ==
    result = "success" =>
        LET kept == KeptChunks(Len(docs))
            sent == WrittenChunks
        IN  /\ \A c \in {kept[j] : j \in 1..Len(kept)} \cup {sent[j] : j \in 1..Len(sent)} :
                  CountIn(c, sent) = CountIn(c, kept)
            /\ \A d \in 1..Len(docs) : \A i \in 0..(docs[d].nchunks - 1) :
                  DOMAIN EncodedVector(i) = {} =>
                      CountIn([title |-> docs[d].title, position |-> i], sent) = 0
            /\ actions # <<>> => (written # <<>> /\ written[Len(written)] = actions)

\* C21 witness: a successful run committed chunks and dropped every other
\* chunk for its empty vector.
C21_Witness ==
    /\ result = "success"
    /\ written # <<>>
    /\ profile[0] = "positive"
    /\ profile[1] = "empty"
    /\ encoded > Len(Flatten(written))

\* C22: every committed batch holds between 1 and BatchSize actions, every
\* batch but the last one of the run holds exactly BatchSize, a batch
\* smaller than BatchSize is written only by the flush that ends
\* index_documents, and the buffer never holds more than BatchSize actions.
C22_FixedSizeBatches ==
    /\ Len(actions) <= BatchSize
    /\ \A b \in 1..Len(written) :
        /\ Len(written[b]) >= 1
        /\ Len(written[b]) <= BatchSize
        /\ b < Len(written) => Len(written[b]) = BatchSize
        /\ Len(written[b]) < BatchSize => ipc = "ended"

\* C22 witness: a run committed a full batch and then a last smaller one.
C22_Witness ==
    /\ result = "success"
    /\ Len(written) >= 2
    /\ Len(written[1]) = BatchSize
    /\ Len(written[Len(written)]) \in 1..(BatchSize - 1)

\* the chunk_id values 0..n-1 for each document with n written chunks, in
\* source order of the documents
RECURSIVE DenseChunks(_)
DenseChunks(d) ==
    IF d = 0 THEN <<>>
    ELSE DenseChunks(d - 1) \o
         [j \in 1..Len(KeptPositions(docs[d])) |->
             [title |-> docs[d].title, position |-> j - 1]]

\* C23 (as claimed): when a run has ended with success, the chunk_id values
\* written for a document with n written chunks are 0..n-1 in write order,
\* documents in source order.
C23_ChunkIdsDense ==
    result = "success" => WrittenChunks = DenseChunks(Len(docs))

\* C23 (amended): the chunk_id written for a chunk is its 0-based position
\* among all the chunks of its document, dropped ones included; the
\* committed chunks are those with a positive weight, documents and chunks
\* in source order, so the chunk_id values of one document increase
\* strictly in write order and are 0..n-1 exactly when none of its chunks
\* before the last written one was dropped.
C23_ChunkIdsArePositions ==
    result = "success" => WrittenChunks = KeptChunks(Len(docs))

\* C23 witness: a successful run wrote the chunks at odd positions only, so
\* the first chunk_id written for a document is 1.
C23_Witness ==
    /\ result = "success"
    /\ written # <<>>
    /\ profile[0] = "nonpositive"
    /\ profile[1] = "positive"
    /\ written[1][1].chunk_id = 1

(***************************************************************************)
(* Properties of the encoder service, checked under SpecEncode.            *)
(***************************************************************************)
\* C18 (as claimed): every entry of the vector encode returns has a weight
\* strictly greater than 0.
C18_ReturnedWeightsPositive ==
    epc = "returned" => \A k \in DOMAIN sparse_vector : sparse_vector[k] > 0

(***************************************************************************)
(* Properties of the evaluation client, checked under SpecEval.            *)
(***************************************************************************)
\* C24 (as claimed): for every body of the wire format and every way it is
\* cut into reads, the text get_rag_response returns is the generated
\* text that follows the delimiter, up to the white space at its ends.
C24_AnswerIsGeneratedText ==
    eval_pc = "returned" => eval_answer = Strip(eval_text)
====
